---------------------------- MODULE Spec2Model ----------------------------
(***************************************************************************)
(* A model of tmux-organize (torganize): the plan lifecycle of             *)
(* src/src/tmux_organize/organize.py on top of the tmux wrappers of        *)
(* src/src/tmux_organize/tmux.py.                                          *)
(*                                                                         *)
(* Strings that enter the cache key are sequences of one-character         *)
(* strings, so that concatenation, joining and sorting are computed as     *)
(* Python computes them.  Window ids are the integers n standing for the   *)
(* tmux ids "@n".                                                          *)
(***************************************************************************)
EXTENDS Integers, Sequences, FiniteSets, TLC

(***************************************************************************)
(* Bounds of the model.                                                    *)
(***************************************************************************)
\* windows a session can hold: the ids @1 .. @NumWindows
NumWindows == 2
\* entries of a proposed plan
MaxPlanLen == 2
\* windows of a snapshot given to build_cache_key, and panes of a window
MaxKeyWindows == 2
MaxKeyPanes == 2
\* characters of a proposal-service output
MaxTextLen == 6

(***************************************************************************)
(* Program constants.                                                      *)
(***************************************************************************)
\* organize.py:332 and :340, the offset of the temporary indices 900 + i
TempBase == 900

\* Python's None, and an unset tmux option
None == [none |-> TRUE]

WindowIds == 1..NumWindows
\* the first and the second organize invocation
Runs == {1, 2}

(***************************************************************************)
(* Strings as sequences of characters.                                     *)
(***************************************************************************)
\* the code point of a character, as far as the model's alphabet goes
CharCode(c) ==
    CASE c = "\"" -> 34
      [] c = "," -> 44
      [] c = "/" -> 47
      [] c = "1" -> 49
      [] c = ":" -> 58
      [] c = ";" -> 59
      [] c = "a" -> 97
      [] c = "b" -> 98
      [] c = "c" -> 99
      [] c = "h" -> 104
      [] c = "i" -> 105
      [] c = "k" -> 107
      [] c = "p" -> 112
      [] c = "q" -> 113
      [] c = "s" -> 115
      [] c = "v" -> 118
      [] c = "{" -> 123
      [] c = "|" -> 124
      [] c = "}" -> 125

\* Python's str < str: lexicographic by code point, a proper prefix is less
RECURSIVE StrLess(_, _)
StrLess(a, b) ==
    IF b = <<>> THEN FALSE
    ELSE IF a = <<>> THEN TRUE
    ELSE IF Head(a) = Head(b) THEN StrLess(Tail(a), Tail(b))
    ELSE CharCode(Head(a)) < CharCode(Head(b))

\* insertion of a string into a sorted list of strings
RECURSIVE InsertSorted(_, _)
InsertSorted(s, sorted) ==
    IF sorted = <<>> THEN <<s>>
    ELSE IF StrLess(Head(sorted), s) THEN <<Head(sorted)>> \o InsertSorted(s, Tail(sorted))
    ELSE <<s>> \o sorted

\* sorted() left out: the list as it comes
SortedStrs_unsorted(strs) == strs

\* Python's sorted() on a list of strings
RECURSIVE SortedStrs(_)
SortedStrs(strs) ==
    IF strs = <<>> THEN <<>>
    ELSE InsertSorted(Head(strs), SortedStrs(Tail(strs)))

\* Python's sep.join(strs)
RECURSIVE Join(_, _)
Join(sep, strs) ==
    IF strs = <<>> THEN <<>>
    ELSE IF Len(strs) = 1 THEN Head(strs)
    ELSE Head(strs) \o sep \o Join(sep, Tail(strs))

(***************************************************************************)
(* The live tmux session and the wrappers of tmux.py.                      *)
(***************************************************************************)
VARIABLES
    windows,        \* the live session: window id -> [index, name]
    session_name,   \* the live session's name
    status,         \* the session option @torganize, None when unset
    cache,          \* ~/.cache/torganize: cache key -> plan
    pc,             \* per run: where main() stands
    context,        \* per run: the snapshot of gather_session_context
    opencode_context, \* per run: the enrichment text
    cache_key,      \* per run: build_cache_key's value
    plan,           \* per run: the plan in hand
    is_cached,      \* per run: main's is_cached
    loop_i,         \* per run: the index of the running for loop
    calls,          \* per run: the tmux rename/move calls issued, in order, each
                    \* with the plan entry it is for and the window it acted on
    model_calls,    \* per run: calls of the proposal service
    ask_result,     \* per run: how the proposal call ended, "none" before it
    cache_writes,   \* per run: the keys write_cached_plan was called with
    collided,       \* per run: a move-window was issued onto an occupied index
    validation_error, \* per run: main's validation_error
    next_window_id, \* the id tmux gives the next window it creates
    user_changed,   \* the user has closed or opened a window of the session
    pure_pc,        \* the pure-function harness: "input", "output" or "off"
    pure_in,        \* its input
    pure_out,       \* its result
    active_window,  \* the session's active window, the one display-message reports
    name_pc,        \* where main() of name.py stands
    name_window_id, \* its window_id, 0 before it is read
    name_result,    \* how its proposal call ended: of kind "none" before it,
                    \* "TimeoutExpired", or "stdout" with the output
    name_calls      \* the tmux rename/move calls it issued, in order

mainvars == <<windows, session_name, status, cache, pc, context, opencode_context,
              cache_key, plan, is_cached, loop_i, calls, model_calls, ask_result,
              cache_writes, collided, validation_error>>
envvars == <<next_window_id, user_changed>>
purevars == <<pure_pc, pure_in, pure_out>>
namevars == <<active_window, name_pc, name_window_id, name_result, name_calls>>
vars == <<mainvars, envvars, purevars, namevars>>

Name_sh == <<"s", "h">>
Name_c == <<"c">>
Path_p == <<"/", "p">>

\* whether some live window sits at index idx
Occupied(ws, idx) == \E w \in DOMAIN ws : ws[w].index = idx

\* the live window at index idx, when there is one
WindowAt(ws, idx) == CHOOSE w \in DOMAIN ws : ws[w].index = idx

\* tmux rename-window -t @id name; run() drops tmux's error for an unknown id
TmuxRenameWindow(ws, id, name) ==
    IF id \in DOMAIN ws THEN [ws EXCEPT ![id].name = name] ELSE ws

\* tmux move-window -s @id -t sid:dst: tmux refuses an index in use
\* ("index in use", "same index"), and run() drops the error
TmuxMoveWindowById(ws, id, dst) ==
    IF id \in DOMAIN ws /\ ~Occupied(ws, dst)
    THEN [ws EXCEPT ![id].index = dst]
    ELSE ws

\* tmux move-window -s sid:src -t sid:dst: the source is whichever window
\* sits at index src; no such window, or dst in use, is a dropped error
TmuxMoveWindowByIndex(ws, src, dst) ==
    IF Occupied(ws, src) /\ ~Occupied(ws, dst)
    THEN [ws EXCEPT ![WindowAt(ws, src)].index = dst]
    ELSE ws

\* the panes tmux lists for a window: one pane, a shell in the session path
PanesOf(id) == <<[command |-> Name_sh, cmdline |-> <<>>, full_path |-> Path_p]>>

\* list-windows: the live windows in index order
RECURSIVE ListWindows(_)
ListWindows(ws) ==
    IF DOMAIN ws = {} THEN <<>>
    ELSE LET first == CHOOSE w \in DOMAIN ws :
                          \A v \in DOMAIN ws : ws[w].index <= ws[v].index
             rest == [v \in DOMAIN ws \ {first} |-> ws[v]]
         IN <<[id |-> first, index |-> ws[first].index, name |-> ws[first].name,
               panes |-> PanesOf(first)]>> \o ListWindows(rest)

\* whether the session is alive: tmux ends a session with its last window
SessionAlive(ws) == DOMAIN ws # {}

\* for a session that is gone list-windows and display-message print
\* nothing: no windows and the empty path
gather_session_context(ws) ==
    [session_id |-> "$0",
     session_path |-> IF SessionAlive(ws) THEN Path_p ELSE <<>>,
     windows |-> ListWindows(ws)]


(***************************************************************************)
(* The plan cache.                                                         *)
(***************************************************************************)
\* "%(cmdline)s:%(path)s" with cmdline or command
PaneFingerprint(p) ==
    (IF p.cmdline # <<>> THEN p.cmdline ELSE p.command) \o <<":">> \o p.full_path

\* the list of a window's pane fingerprints, in pane order
PaneFingerprints(panes) == [k \in 1..Len(panes) |-> PaneFingerprint(panes[k])]

\* StablePart when the window's name is left out of its part
StablePart_without_name(window) ==
    <<"|">> \o Join(<<"|">>, SortedStrs(PaneFingerprints(window.panes)))

\* "%(name)s|%(panes)s" over the sorted pane fingerprints
StablePart(window) ==
    window.name \o <<"|">> \o Join(<<"|">>, SortedStrs(PaneFingerprints(window.panes)))

\* the list stable_parts, in window order
StableParts(ctx) == [k \in 1..Len(ctx.windows) |-> StablePart(ctx.windows[k])]

\* hashlib.sha256(raw_key).hexdigest()[:16]: a digest taken as free of
\* collisions stands for its preimage
Sha256Hex16(raw_key) == raw_key

build_cache_key(ctx, oc) ==
    Sha256Hex16(ctx.session_path \o <<";">> \o Join(<<";">>, StableParts(ctx))
                \o <<";">> \o oc)

\* None when no file of that key exists, else the file's plan
read_cached_plan(files, key) ==
    IF key \in DOMAIN files THEN files[key] ELSE None

\* the cache directory after json.dump(plan) into the key's file
write_cached_plan(files, key, pl) ==
    [k \in DOMAIN files \cup {key} |-> IF k = key THEN pl ELSE files[k]]

(***************************************************************************)
(* Plans and their validation.                                             *)
(***************************************************************************)
\* a plan is the parsed JSON object: the top-level keys it has, and their values
PlanKeys == {"session", "windows"}

\* the ids of a list of windows (of a snapshot or of a plan)
IdsOf(ws) == {ws[k].id : k \in 1..Len(ws)}

\* sorted() of a set of window ids
RECURSIVE SortedIds(_)
SortedIds(ids) ==
    IF ids = {} THEN <<>>
    ELSE LET least == CHOOSE x \in ids : \A y \in ids : x <= y
         IN <<least>> \o SortedIds(ids \ {least})

\* len(plan_indices) != len(set(plan_indices))
HasDuplicateIndices(pws) ==
    Len(pws) # Cardinality({pws[k].index : k \in 1..Len(pws)})

\* MismatchParts when the extra ids are left out of the diagnostic
MismatchParts_missing_only(missing, extra) ==
    IF missing # {} THEN <<[label |-> "missing", ids |-> SortedIds(missing)]>> ELSE <<>>

\* the parts of the id mismatch diagnostic: missing first, then extra
MismatchParts(missing, extra) ==
    (IF missing # {} THEN <<[label |-> "missing", ids |-> SortedIds(missing)]>> ELSE <<>>)
    \o (IF extra # {} THEN <<[label |-> "extra", ids |-> SortedIds(extra)]>> ELSE <<>>)

\* validate_plan when the plan's ids need only cover the snapshot's
validate_plan_accepts_extra_ids(pl, ctx) ==
    IF ~(PlanKeys \subseteq pl.keys)
    THEN [text |-> "missing session/windows keys", parts |-> <<>>]
    ELSE IF ~(IdsOf(ctx.windows) \subseteq IdsOf(pl.windows))
    THEN [text |-> "window id mismatch",
          parts |-> MismatchParts_missing_only(IdsOf(ctx.windows) \ IdsOf(pl.windows), {})]
    ELSE IF HasDuplicateIndices(pl.windows)
    THEN [text |-> "duplicate indices", parts |-> <<>>]
    ELSE None

\* None when valid, else the diagnostic: its leading text and its parts
validate_plan(pl, ctx) ==
    IF ~(PlanKeys \subseteq pl.keys)
    THEN [text |-> "missing session/windows keys", parts |-> <<>>]
    ELSE LET context_ids == IdsOf(ctx.windows)
             plan_ids == IdsOf(pl.windows)
         IN IF context_ids # plan_ids
            THEN [text |-> "window id mismatch",
                  parts |-> MismatchParts(context_ids \ plan_ids, plan_ids \ context_ids)]
            ELSE IF HasDuplicateIndices(pl.windows)
            THEN [text |-> "duplicate indices", parts |-> <<>>]
            ELSE None

\* Python's truth value of the plan in hand: None and {} are false
Truthy(pl) == pl # None /\ pl.keys # {}

(***************************************************************************)
(* What the proposal service can answer.                                   *)
(***************************************************************************)
\* sequences over S of length at most n
SeqsUpTo(S, n) == UNION {[1..k -> S] : k \in 0..n}

PlanNames == {Name_sh, Name_c}
PlanIndices == (0..(NumWindows - 1)) \cup {TempBase + 1}
PlanEntries == [id : WindowIds, name : PlanNames, index : PlanIndices]

\* objects carrying both top-level keys
FullPlans ==
    {[keys |-> PlanKeys, session |-> "proj", windows |-> pws] :
        pws \in SeqsUpTo(PlanEntries, MaxPlanLen)}

\* objects lacking a top-level key
PartialPlans ==
    {[keys |-> ks, session |-> "proj", windows |-> <<>>] : ks \in (SUBSET PlanKeys) \ {PlanKeys}}

ProposedPlans == FullPlans \cup PartialPlans

\* objects with both top-level keys and a window entry that lacks "id" or
\* lacks "index"
MalformedPlans ==
    {[keys |-> PlanKeys, session |-> "proj", windows |-> <<entry>>] :
        entry \in {[name |-> Name_c, index |-> 0], [id |-> 1, name |-> Name_c]}}

\* w["id"] or w["index"] of lines 300-301 raises KeyError on the plan
RaisesKeyError(pl) ==
    /\ PlanKeys \subseteq pl.keys
    /\ \E k \in 1..Len(pl.windows) : ~({"id", "index"} \subseteq DOMAIN pl.windows[k])

\* what the proposal service's output can parse to
ModelOutputs == ProposedPlans \cup MalformedPlans

\* a status text without id lists
Message(text) == [text |-> text, parts |-> <<>>]

(***************************************************************************)
(* The initial state: a live session of one or two windows at distinct     *)
(* indices, all named after their shell, an empty cache, no run started.   *)
(***************************************************************************)
InitialSessions ==
    {ws \in UNION {[1..k -> [index : 0..(NumWindows - 1), name : {Name_sh}]] : k \in 1..NumWindows} :
        \A v, w \in DOMAIN ws : v # w => ws[v].index # ws[w].index}

RunsIdle ==
    /\ pc = [p \in Runs |-> "start"]
    /\ context = [p \in Runs |-> None]
    /\ opencode_context = [p \in Runs |-> <<>>]
    /\ cache_key = [p \in Runs |-> <<>>]
    /\ plan = [p \in Runs |-> None]
    /\ is_cached = [p \in Runs |-> FALSE]
    /\ loop_i = [p \in Runs |-> 0]
    /\ calls = [p \in Runs |-> <<>>]
    /\ model_calls = [p \in Runs |-> 0]
    /\ ask_result = [p \in Runs |-> "none"]
    /\ cache_writes = [p \in Runs |-> <<>>]
    /\ collided = [p \in Runs |-> FALSE]
    /\ validation_error = [p \in Runs |-> None]

PureOff ==
    /\ pure_pc = "off"
    /\ pure_in = None
    /\ pure_out = None

\* tname has not been invoked; the window of the lowest id is the active one
NameIdle ==
    /\ active_window = CHOOSE w \in DOMAIN windows : \A v \in DOMAIN windows : w <= v
    /\ name_pc = "start"
    /\ name_window_id = 0
    /\ name_result = [kind |-> "none"]
    /\ name_calls = <<>>

Init ==
    /\ windows \in InitialSessions
    /\ next_window_id = Cardinality(DOMAIN windows) + 1
    /\ user_changed = FALSE
    /\ session_name = "0"
    /\ status = None
    /\ cache = <<>>
    /\ RunsIdle
    /\ PureOff
    /\ NameIdle

(***************************************************************************)
(* main() of organize.py, one action per step of the run p.                *)
(***************************************************************************)
\* query_opencode_sessions() when otop is not installed: no records, and
\* build_opencode_context returns "" for an empty list
NoEnrichment == <<>>

\* set-option -t <sid> @torganize: run() drops tmux's error when the
\* session is gone
TmuxSetStatus(ws, old, new) == IF SessionAlive(ws) THEN new ELSE old

\* lines 350-353: the session id, or "not in a tmux session" and exit 1
main_session_id(p) ==
    /\ pc[p] = "start"
    /\ pc' = [pc EXCEPT ![p] = IF SessionAlive(windows) THEN "gather" ELSE "exit_1"]
    /\ UNCHANGED <<windows, session_name, status, cache, context, opencode_context,
                   cache_key, plan, is_cached, loop_i, calls, model_calls, ask_result,
                   cache_writes, collided, validation_error, envvars, purevars, namevars>>

\* lines 356-367: the snapshot, the enrichment text, the status, the fork
main_snapshot(p) ==
    /\ pc[p] = "gather"
    /\ context' = [context EXCEPT ![p] = gather_session_context(windows)]
    /\ opencode_context' = [opencode_context EXCEPT ![p] = NoEnrichment]
    /\ status' = TmuxSetStatus(windows, status, Message("organizing..."))
    /\ pc' = [pc EXCEPT ![p] = "child"]
    /\ UNCHANGED <<windows, session_name, cache, cache_key, plan, is_cached, loop_i,
                   calls, model_calls, ask_result, cache_writes, collided, validation_error,
                   envvars, purevars, namevars>>

\* main_lookup when the child gathers the session again for its key
main_lookup_rereads_session(p) ==
    /\ pc[p] = "child"
    /\ LET key == build_cache_key(gather_session_context(windows), opencode_context[p])
           found == read_cached_plan(cache, key)
       IN /\ cache_key' = [cache_key EXCEPT ![p] = key]
          /\ plan' = [plan EXCEPT ![p] = found]
          /\ is_cached' = [is_cached EXCEPT ![p] = (found # None)]
          /\ pc' = [pc EXCEPT ![p] = IF Truthy(found) THEN "validate" ELSE "ask"]
    /\ UNCHANGED <<windows, session_name, status, cache, context, opencode_context,
                   loop_i, calls, model_calls, ask_result, cache_writes, collided,
                   validation_error, envvars, purevars, namevars>>

\* lines 370-374: the cache key and the cache lookup
main_lookup(p) ==
    /\ pc[p] = "child"
    /\ LET key == build_cache_key(context[p], opencode_context[p])
           found == read_cached_plan(cache, key)
       IN /\ cache_key' = [cache_key EXCEPT ![p] = key]
          /\ plan' = [plan EXCEPT ![p] = found]
          /\ is_cached' = [is_cached EXCEPT ![p] = (found # None)]
          /\ pc' = [pc EXCEPT ![p] = IF Truthy(found) THEN "validate" ELSE "ask"]
    /\ UNCHANGED <<windows, session_name, status, cache, context, opencode_context,
                   loop_i, calls, model_calls, ask_result, cache_writes, collided, validation_error,
                   envvars, purevars, namevars>>

\* the error text of ask_model_for_plan (lines 284-288) for a failed call
AskError(result) ==
    IF result = "TimeoutExpired" THEN "opencode timed out" ELSE "no json in model output"

\* main_ask when a failed call is repeated once
main_ask_retries_once(p) ==
    /\ pc[p] = "ask"
    /\ model_calls' = [model_calls EXCEPT ![p] = @ + 1]
    /\ \/ /\ \E result \in {"TimeoutExpired", "no object"} :
                /\ ask_result' = [ask_result EXCEPT ![p] = result]
                /\ status' = IF model_calls[p] = 0 THEN status
                           ELSE TmuxSetStatus(windows, status, Message(AskError(result)))
          /\ pc' = [pc EXCEPT ![p] = IF model_calls[p] = 0 THEN "ask" ELSE "exit_1"]
          /\ UNCHANGED plan
       \/ /\ \E pl \in ModelOutputs : plan' = [plan EXCEPT ![p] = pl]
          /\ ask_result' = [ask_result EXCEPT ![p] = "object"]
          /\ pc' = [pc EXCEPT ![p] = "validate"]
          /\ UNCHANGED status
    /\ UNCHANGED <<windows, session_name, cache, context, opencode_context, cache_key,
                   is_cached, loop_i, calls, cache_writes, collided, validation_error,
                   envvars, purevars, namevars>>

\* lines 375-378 with ask_model_for_plan (267-289): the call times out, its
\* output holds no JSON object, or it holds the object pl
main_ask(p) ==
    /\ pc[p] = "ask"
    /\ model_calls' = [model_calls EXCEPT ![p] = @ + 1]
    /\ \/ /\ \E result \in {"TimeoutExpired", "no object"} :
                /\ ask_result' = [ask_result EXCEPT ![p] = result]
                /\ status' = TmuxSetStatus(windows, status, Message(AskError(result)))
          /\ pc' = [pc EXCEPT ![p] = "exit_1"]
          /\ UNCHANGED plan
       \/ /\ \E pl \in ModelOutputs : plan' = [plan EXCEPT ![p] = pl]
          /\ ask_result' = [ask_result EXCEPT ![p] = "object"]
          /\ pc' = [pc EXCEPT ![p] = "validate"]
          /\ UNCHANGED status
    /\ UNCHANGED <<windows, session_name, cache, context, opencode_context, cache_key,
                   is_cached, loop_i, calls, cache_writes, collided, validation_error,
                   envvars, purevars, namevars>>

\* where main goes once the plan is validated and, on a miss, stored
EnterApply(pl) == IF Len(pl.windows) = 0 THEN "rename_session" ELSE "rename"

\* main_validate when the early exit of line 386 is forgotten
main_validate_without_exit(p) ==
    /\ pc[p] = "validate"
    /\ IF RaisesKeyError(plan[p])
       THEN /\ pc' = [pc EXCEPT ![p] = "crashed"]
            /\ UNCHANGED <<validation_error, status, loop_i>>
       ELSE /\ validation_error' = [validation_error EXCEPT ![p] = validate_plan(plan[p], context[p])]
            /\ status' = IF validation_error'[p] # None
                         THEN TmuxSetStatus(windows, status, validation_error'[p])
                         ELSE status
            /\ pc' = [pc EXCEPT ![p] = IF is_cached[p] THEN EnterApply(plan[p]) ELSE "write"]
            /\ loop_i' = [loop_i EXCEPT ![p] = 1]
    /\ UNCHANGED <<windows, session_name, cache, context, opencode_context, cache_key,
                   plan, is_cached, calls, model_calls, ask_result, cache_writes, collided, envvars,
                   purevars, namevars>>

\* main_validate when line 388 does not test is_cached
main_validate_always_writes(p) ==
    /\ pc[p] = "validate"
    /\ IF RaisesKeyError(plan[p])
       THEN /\ pc' = [pc EXCEPT ![p] = "crashed"]
            /\ UNCHANGED <<validation_error, status, loop_i>>
       ELSE /\ validation_error' = [validation_error EXCEPT ![p] = validate_plan(plan[p], context[p])]
            /\ IF validation_error'[p] # None
               THEN /\ status' = TmuxSetStatus(windows, status, validation_error'[p])
                    /\ pc' = [pc EXCEPT ![p] = "exit_1"]
                    /\ UNCHANGED loop_i
               ELSE /\ pc' = [pc EXCEPT ![p] = "write"]
                    /\ loop_i' = [loop_i EXCEPT ![p] = 1]
                    /\ UNCHANGED status
    /\ UNCHANGED <<windows, session_name, cache, context, opencode_context, cache_key,
                   plan, is_cached, calls, model_calls, ask_result, cache_writes, collided, envvars,
                   purevars, namevars>>

\* lines 383-386 and the test of line 388
main_validate(p) ==
    /\ pc[p] = "validate"
    /\ IF RaisesKeyError(plan[p])
       THEN /\ pc' = [pc EXCEPT ![p] = "crashed"]
            /\ UNCHANGED <<validation_error, status, loop_i>>
       ELSE /\ validation_error' = [validation_error EXCEPT ![p] = validate_plan(plan[p], context[p])]
            /\ IF validation_error'[p] # None
               THEN /\ status' = TmuxSetStatus(windows, status, validation_error'[p])
                    /\ pc' = [pc EXCEPT ![p] = "exit_1"]
                    /\ UNCHANGED loop_i
               ELSE /\ pc' = [pc EXCEPT ![p] = IF is_cached[p] THEN EnterApply(plan[p]) ELSE "write"]
                    /\ loop_i' = [loop_i EXCEPT ![p] = 1]
                    /\ UNCHANGED status
    /\ UNCHANGED <<windows, session_name, cache, context, opencode_context, cache_key,
                   plan, is_cached, calls, model_calls, ask_result, cache_writes, collided, envvars,
                   purevars, namevars>>

\* main_write when the plan is not stored
main_write_stores_nothing(p) ==
    /\ pc[p] = "write"
    /\ cache_writes' = [cache_writes EXCEPT ![p] = Append(@, cache_key[p])]
    /\ pc' = [pc EXCEPT ![p] = EnterApply(plan[p])]
    /\ UNCHANGED <<windows, session_name, status, cache, context, opencode_context,
                   cache_key, plan, is_cached, loop_i, calls, model_calls, ask_result, collided,
                   validation_error, envvars, purevars, namevars>>

\* line 389
main_write(p) ==
    /\ pc[p] = "write"
    /\ cache' = write_cached_plan(cache, cache_key[p], plan[p])
    /\ cache_writes' = [cache_writes EXCEPT ![p] = Append(@, cache_key[p])]
    /\ pc' = [pc EXCEPT ![p] = EnterApply(plan[p])]
    /\ UNCHANGED <<windows, session_name, status, context, opencode_context, cache_key,
                   plan, is_cached, loop_i, calls, model_calls, ask_result, collided,
                   validation_error, envvars, purevars, namevars>>

(***************************************************************************)
(* apply_organization_plan, one action per tmux call.  loop_i counts the   *)
(* plan entries from 1, so the code's i is loop_i - 1.                     *)
(***************************************************************************)
\* AfterIteration when every loop ends after its first pass
AfterIteration_single_pass(p, phase, next_phase) ==
    /\ pc' = [pc EXCEPT ![p] = next_phase]
    /\ loop_i' = [loop_i EXCEPT ![p] = 1]

\* the loop's next position: the same loop, or the phase after it
AfterIteration(p, phase, next_phase) ==
    IF loop_i[p] < Len(plan[p].windows)
    THEN /\ pc' = [pc EXCEPT ![p] = phase]
         /\ loop_i' = [loop_i EXCEPT ![p] = @ + 1]
    ELSE /\ pc' = [pc EXCEPT ![p] = next_phase]
         /\ loop_i' = [loop_i EXCEPT ![p] = 1]

\* the temporary index of the plan entry at position k (from 1)
TempIndex(k) == TempBase + (k - 1)

\* whether a window other than id sits at index idx
OccupiedByOther(ws, id, idx) == \E w \in DOMAIN ws \ {id} : ws[w].index = idx

\* lines 322-323: rename-window -t <id> <name>
apply_rename(p) ==
    /\ pc[p] = "rename"
    /\ LET window == plan[p].windows[loop_i[p]]
       IN /\ windows' = TmuxRenameWindow(windows, window.id, window.name)
          /\ calls' = [calls EXCEPT ![p] =
                 Append(@, [cmd |-> "rename-window", by |-> "id", src |-> window.id,
                            dst |-> window.index, name |-> window.name,
                            entry |-> loop_i[p],
                            acted |-> IF window.id \in DOMAIN windows THEN window.id ELSE 0])]
    /\ AfterIteration(p, "rename", "move_temp")
    /\ UNCHANGED <<session_name, status, cache, context, opencode_context, cache_key,
                   plan, is_cached, model_calls, ask_result, cache_writes, collided,
                   validation_error, envvars, purevars, namevars>>

\* lines 326-333: move-window -s <id> -t <sid>:<900 + i>
apply_move_temp(p) ==
    /\ pc[p] = "move_temp"
    /\ LET window == plan[p].windows[loop_i[p]]
           dst == TempIndex(loop_i[p])
       IN /\ windows' = TmuxMoveWindowById(windows, window.id, dst)
          /\ collided' = [collided EXCEPT ![p] = @ \/ OccupiedByOther(windows, window.id, dst)]
          /\ calls' = [calls EXCEPT ![p] =
                 Append(@, [cmd |-> "move-window", by |-> "id", src |-> window.id,
                            dst |-> dst, name |-> window.name, entry |-> loop_i[p],
                            acted |-> IF windows' # windows THEN window.id ELSE 0])]
    /\ AfterIteration(p, "move_temp", "move_final")
    /\ UNCHANGED <<session_name, status, cache, context, opencode_context, cache_key,
                   plan, is_cached, model_calls, ask_result, cache_writes, validation_error,
                   envvars, purevars, namevars>>

\* lines 336-343: move-window -s <sid>:<900 + i> -t <sid>:<index>
apply_move_final(p) ==
    /\ pc[p] = "move_final"
    /\ LET window == plan[p].windows[loop_i[p]]
           src == TempIndex(loop_i[p])
       IN /\ windows' = TmuxMoveWindowByIndex(windows, src, window.index)
          /\ collided' = [collided EXCEPT ![p] =
                 @ \/ OccupiedByOther(windows, window.id, window.index)]
          /\ calls' = [calls EXCEPT ![p] =
                 Append(@, [cmd |-> "move-window", by |-> "index", src |-> src,
                            dst |-> window.index, name |-> window.name,
                            entry |-> loop_i[p],
                            acted |-> IF windows' # windows THEN WindowAt(windows, src) ELSE 0])]
    /\ AfterIteration(p, "move_final", "rename_session")
    /\ UNCHANGED <<session_name, status, cache, context, opencode_context, cache_key,
                   plan, is_cached, model_calls, ask_result, cache_writes, validation_error,
                   envvars, purevars, namevars>>

\* line 346: rename-session -t <sid> <session>
apply_rename_session(p) ==
    /\ pc[p] = "rename_session"
    /\ session_name' = IF SessionAlive(windows) THEN plan[p].session ELSE session_name
    /\ calls' = [calls EXCEPT ![p] =
           Append(@, [cmd |-> "rename-session", by |-> "id", src |-> 0, dst |-> 0,
                      name |-> <<>>, entry |-> 0, acted |-> 0])]
    /\ pc' = [pc EXCEPT ![p] = "clear"]
    /\ UNCHANGED <<windows, status, cache, context, opencode_context, cache_key, plan,
                   is_cached, loop_i, model_calls, ask_result, cache_writes, collided,
                   validation_error, envvars, purevars, namevars>>

\* line 394: set-option -u @torganize, and main returns
main_clear(p) ==
    /\ pc[p] = "clear"
    /\ status' = None
    /\ pc' = [pc EXCEPT ![p] = "returned"]
    /\ UNCHANGED <<windows, session_name, cache, context, opencode_context, cache_key,
                   plan, is_cached, loop_i, calls, model_calls, ask_result, cache_writes, collided,
                   validation_error, envvars, purevars, namevars>>

\* whether the run p is over: main returned, sys.exit(1), or an exception
\* nothing catches
Ended(p) == pc[p] \in {"returned", "exit_1", "crashed"}

\* the run p may step: the runs are invoked one after the other
Invoked(p) == \A q \in Runs : q < p => Ended(q)

\* a single organize invocation
Next ==
    \/ main_session_id(1)
    \/ main_snapshot(1)
    \/ main_lookup(1)
    \/ main_ask(1)
    \/ main_validate(1)
    \/ main_write(1)
    \/ apply_rename(1)
    \/ apply_move_temp(1)
    \/ apply_move_final(1)
    \/ apply_rename_session(1)
    \/ main_clear(1)

Spec == Init /\ [][Next]_vars

(***************************************************************************)
(* What the user does to the session between two invocations.              *)
(***************************************************************************)
\* the first invocation is over and the second has not begun
BetweenRuns == Ended(1) /\ pc[2] = "start"

\* the lowest index no live window holds
LowestFreeIndex(ws) ==
    CHOOSE n \in 0..Cardinality(DOMAIN ws) :
        /\ ~Occupied(ws, n)
        /\ \A m \in 0..(n - 1) : Occupied(ws, m)

\* tmux new-window: a fresh id at the lowest free index, named after its shell
NewWindow ==
    /\ SessionAlive(windows)
    /\ next_window_id \in WindowIds
    /\ windows' = [w \in DOMAIN windows \cup {next_window_id} |->
                      IF w = next_window_id
                      THEN [index |-> LowestFreeIndex(windows), name |-> Name_sh]
                      ELSE windows[w]]
    /\ next_window_id' = next_window_id + 1
    /\ user_changed' = TRUE
    /\ UNCHANGED <<session_name, status, cache, pc, context, opencode_context,
                   cache_key, plan, is_cached, loop_i, calls, model_calls, ask_result, cache_writes,
                   collided, validation_error, purevars, namevars>>

\* tmux kill-window on one of several windows
KillWindow ==
    /\ Cardinality(DOMAIN windows) > 1
    /\ \E w \in DOMAIN windows :
          windows' = [v \in DOMAIN windows \ {w} |-> windows[v]]
    /\ user_changed' = TRUE
    /\ UNCHANGED <<session_name, status, cache, pc, context, opencode_context,
                   cache_key, plan, is_cached, loop_i, calls, model_calls, ask_result, cache_writes,
                   collided, validation_error, next_window_id, purevars, namevars>>

user_new_window == BetweenRuns /\ NewWindow

user_kill_window == BetweenRuns /\ KillWindow

\* two organize invocations of the same session, the second after the first
NextTwice ==
    \/ \E p \in Runs : Invoked(p) /\ main_session_id(p)
    \/ \E p \in Runs : Invoked(p) /\ main_snapshot(p)
    \/ \E p \in Runs : Invoked(p) /\ main_lookup(p)
    \/ \E p \in Runs : Invoked(p) /\ main_ask(p)
    \/ \E p \in Runs : Invoked(p) /\ main_validate(p)
    \/ \E p \in Runs : Invoked(p) /\ main_write(p)
    \/ \E p \in Runs : Invoked(p) /\ apply_rename(p)
    \/ \E p \in Runs : Invoked(p) /\ apply_move_temp(p)
    \/ \E p \in Runs : Invoked(p) /\ apply_move_final(p)
    \/ \E p \in Runs : Invoked(p) /\ apply_rename_session(p)
    \/ \E p \in Runs : Invoked(p) /\ main_clear(p)
    \/ user_new_window
    \/ user_kill_window

SpecTwice == Init /\ [][NextTwice]_vars

(***************************************************************************)
(* What the user does to the session while an invocation is under way:     *)
(* between the reading of the session id and the snapshot the session may  *)
(* end; between the snapshot and the end of validation, the proposal call  *)
(* included, windows are opened, closed and moved.                         *)
(***************************************************************************)
\* the run has its snapshot and has not finished validating its plan
InFlight == pc[1] \in {"child", "ask", "validate"}

\* the indices the user moves a window to
UserIndices == PlanIndices \cup {TempBase}

inflight_new_window == InFlight /\ NewWindow

inflight_kill_window == InFlight /\ KillWindow

\* tmux move-window -s @w -t idx, by the user
inflight_move_window ==
    /\ InFlight
    /\ \E w \in DOMAIN windows, idx \in UserIndices :
          /\ ~Occupied(windows, idx)
          /\ windows' = TmuxMoveWindowById(windows, w, idx)
    /\ user_changed' = TRUE
    /\ UNCHANGED <<session_name, status, cache, pc, context, opencode_context,
                   cache_key, plan, is_cached, loop_i, calls, model_calls, ask_result,
                   cache_writes, collided, validation_error, next_window_id, purevars, namevars>>

\* tmux kill-session, or the last window closing: the session and its
\* options are gone
kill_session ==
    /\ pc[1] = "gather" \/ InFlight
    /\ SessionAlive(windows)
    /\ windows' = <<>>
    /\ status' = None
    /\ user_changed' = TRUE
    /\ UNCHANGED <<session_name, cache, pc, context, opencode_context, cache_key, plan,
                   is_cached, loop_i, calls, model_calls, ask_result, cache_writes,
                   collided, validation_error, next_window_id, purevars, namevars>>

\* one organize invocation in a session its user keeps working in
NextInFlight ==
    \/ main_session_id(1)
    \/ main_snapshot(1)
    \/ main_lookup(1)
    \/ main_ask(1)
    \/ main_validate(1)
    \/ main_write(1)
    \/ apply_rename(1)
    \/ apply_move_temp(1)
    \/ apply_move_final(1)
    \/ apply_rename_session(1)
    \/ main_clear(1)
    \/ inflight_new_window
    \/ inflight_kill_window
    \/ inflight_move_window
    \/ kill_session

SpecInFlight == Init /\ [][NextInFlight]_vars

(***************************************************************************)
(* Two organize invocations of the same session whose detached children    *)
(* run at the same time: any step of either may come next.  The proposal   *)
(* service gives both the same plan.                                       *)
(***************************************************************************)
\* the plans the two runs have in hand, when both have one, are the same
SamePlan == (plan[1] # None /\ plan[2] # None) => plan[1] = plan[2]

\* line 375, with the service answering both runs alike
main_ask_same_plan(p) == main_ask(p) /\ SamePlan'

NextConcurrent ==
    \/ \E p \in Runs : main_session_id(p)
    \/ \E p \in Runs : main_snapshot(p)
    \/ \E p \in Runs : main_lookup(p)
    \/ \E p \in Runs : main_ask_same_plan(p)
    \/ \E p \in Runs : main_validate(p)
    \/ \E p \in Runs : main_write(p)
    \/ \E p \in Runs : apply_rename(p)
    \/ \E p \in Runs : apply_move_temp(p)
    \/ \E p \in Runs : apply_move_final(p)
    \/ \E p \in Runs : apply_rename_session(p)
    \/ \E p \in Runs : main_clear(p)

SpecConcurrent == Init /\ [][NextConcurrent]_vars

(***************************************************************************)
(* The claims about the organize run.                                      *)
(***************************************************************************)
\* the run p is in apply_organization_plan or past it
Applying(p) ==
    pc[p] \in {"rename", "move_temp", "move_final", "rename_session", "clear", "returned"}

\* C1: with a validated plan that has one entry per window of the session,
\* no move-window issued by apply_organization_plan, to a temporary index
\* or to a planned index, targets an index another window occupies.
C1_NoMoveOntoOccupiedIndex ==
    \A p \in Runs :
        (Applying(p) /\ Len(plan[p].windows) = Len(context[p].windows))
            => ~collided[p]

\* the live session is what the plan of run p says: the same window ids as
\* the snapshot, every entry's window at its index under its name, and the
\* session under the plan's name
SessionIsAsPlanned(p) ==
    /\ DOMAIN windows = IdsOf(context[p].windows)
    /\ \A k \in 1..Len(plan[p].windows) :
          LET window == plan[p].windows[k]
          IN /\ window.id \in DOMAIN windows
             /\ windows[window.id].index = window.index
             /\ windows[window.id].name = window.name
    /\ session_name = plan[p].session

\* C2: once apply_organization_plan has finished on a plan validate_plan
\* accepted, the session holds the same window ids, every window sits at
\* the index and carries the name of its plan entry, and the session
\* carries the plan's session name.
C2_AppliedPlanIsTheSession ==
    pc[1] = "returned" => SessionIsAsPlanned(1)

\* C5: a run whose validation returned a diagnostic has issued no
\* rename-window, move-window or rename-session call, has written no cache
\* entry, and has exited.
C5_RejectedPlanNeverApplied ==
    \A p \in Runs :
        validation_error[p] # None
            => /\ calls[p] = <<>>
               /\ cache_writes[p] = <<>>
               /\ pc[p] = "exit_1"

\* a plan read from the cache was rejected against the new snapshot
C5_Witness ==
    \E p \in Runs :
        /\ validation_error[p] # None
        /\ is_cached[p]
        /\ model_calls[p] = 0
        /\ pc[p] = "exit_1"

\* C6: a run writes the cache at most once, under the key it computed, only
\* when its lookup missed and only with the proposed plan once validate_plan
\* accepted it; a run whose plan came from the cache writes nothing.
C6_CacheWrittenOnceAfterValidation ==
    \A p \in Runs :
        /\ Len(cache_writes[p]) <= 1
        /\ cache_writes[p] # <<>>
              => /\ cache_writes[p][1] = cache_key[p]
                 /\ ~is_cached[p]
                 /\ model_calls[p] = 1
                 /\ Applying(p)
                 /\ validation_error[p] = None
                 /\ validate_plan(plan[p], context[p]) = None
        /\ is_cached[p] => cache_writes[p] = <<>>

\* the first run stored its plan and the second run applied it from the cache
C6_Witness ==
    /\ pc[1] = "returned" /\ Len(cache_writes[1]) = 1
    /\ pc[2] = "returned" /\ is_cached[2] /\ cache_writes[2] = <<>>

\* the run p has looked its key up
LookedUp(p) == pc[p] \notin {"start", "gather", "child"}

\* C7 as stated: after a first run that completed, a second run of the
\* session the user left alone finds a cache entry for its key and does not
\* call the proposal service.
C7_SecondRunAlwaysHits ==
    (pc[1] = "returned" /\ ~user_changed /\ LookedUp(2))
        => (is_cached[2] /\ model_calls[2] = 0)

\* C7, amended: after a first run that completed, a second run whose
\* snapshot and enrichment text give the same cache key finds the cache
\* entry for it and never calls the proposal service.
C7_SameKeySecondRunHits ==
    (pc[1] = "returned" /\ LookedUp(2) /\ cache_key[2] = cache_key[1])
        => (is_cached[2] /\ model_calls[2] = 0 /\ cache_key[2] \in DOMAIN cache)

\* the second run went through on the plan the first run had stored
C7_Witness ==
    /\ pc[1] = "returned" /\ Len(cache_writes[1]) = 1
    /\ pc[2] = "returned" /\ cache_key[2] = cache_key[1]
    /\ plan[2] = plan[1] /\ model_calls[2] = 0

\* C11: a run whose proposal call timed out or gave no JSON object has
\* called the proposal service once, has exited with status 1, shows the
\* diagnostic of that failure in the status option ("opencode timed out" or
\* "no json in model output"), and has issued no cache write and no
\* rename-window, move-window or rename-session call.
C11_FailedCallEndsTheRun ==
    ask_result[1] \in {"TimeoutExpired", "no object"}
        => /\ model_calls[1] = 1
           /\ pc[1] = "exit_1"
           /\ ask_result[1] = "TimeoutExpired" => status = Message("opencode timed out")
           /\ ask_result[1] = "no object" => status = Message("no json in model output")
           /\ cache_writes[1] = <<>>
           /\ calls[1] = <<>>

\* the proposal call of a run that missed the cache timed out
C11_Witness ==
    /\ ask_result[1] = "TimeoutExpired"
    /\ ~is_cached[1]
    /\ pc[1] = "exit_1"
    /\ status = Message("opencode timed out")

\* C14: a run whose snapshot has no windows stops there: it looks up and
\* writes no cache entry, does not call the proposal service, and issues no
\* rename-window, move-window or rename-session call.
C14_EmptySnapshotStopsTheRun ==
    (context[1] # None /\ context[1].windows = <<>>)
        => /\ ~LookedUp(1)
           /\ model_calls[1] = 0
           /\ cache_writes[1] = <<>>
           /\ calls[1] = <<>>

\* a single organize invocation that keeps running: every step of main is
\* a bounded computation or a subprocess call that returns (the proposal
\* call within its 120 s timeout)
SpecFair == Init /\ [][Next]_vars /\ WF_vars(Next)

\* C15: a run that has set the status option to "organizing..." eventually
\* ends either returned with the status option unset, or exited with
\* status 1 and a diagnostic in the status option; it never stops with the
\* option still at "organizing...".
C15_RunEndsClearedOrDiagnosed ==
    (pc[1] = "child" /\ status = Message("organizing..."))
        ~> \/ pc[1] = "returned" /\ status = None
           \/ pc[1] = "exit_1" /\ status # None /\ status # Message("organizing...")

\* C16: when the applier is about to issue its first call, the window ids
\* of the plan are the ids of the windows live in the session, whatever the
\* user opened or closed since the snapshot.
C16_PlanIdsAreLiveIdsAtFirstCall ==
    (pc[1] = "rename" /\ calls[1] = <<>>)
        => IdsOf(plan[1].windows) = DOMAIN windows

\* the calls of apply_organization_plan on a plan of N entries, in order:
\* N rename-window by id, N move-window by id to the temporary indices,
\* N move-window from the temporary indices to the planned ones in plan
\* order, one rename-session
CallsInPhaseOrder(pl) ==
    LET N == Len(pl.windows)
    IN [k \in 1..(3 * N + 1) |->
          IF k <= N
          THEN [cmd |-> "rename-window", by |-> "id", src |-> pl.windows[k].id,
                dst |-> pl.windows[k].index, name |-> pl.windows[k].name, entry |-> k]
          ELSE IF k <= 2 * N
          THEN [cmd |-> "move-window", by |-> "id", src |-> pl.windows[k - N].id,
                dst |-> TempBase + (k - N) - 1, name |-> pl.windows[k - N].name,
                entry |-> k - N]
          ELSE IF k <= 3 * N
          THEN [cmd |-> "move-window", by |-> "index", src |-> TempBase + (k - 2 * N) - 1,
                dst |-> pl.windows[k - 2 * N].index, name |-> pl.windows[k - 2 * N].name,
                entry |-> k - 2 * N]
          ELSE [cmd |-> "rename-session", by |-> "id", src |-> 0, dst |-> 0,
                name |-> <<>>, entry |-> 0]]

\* a call as issued: the record without the window it turned out to act on
AsIssued(call) == [f \in DOMAIN call \ {"acted"} |-> call[f]]

\* C17: the calls apply_organization_plan has issued are at every moment a
\* prefix of: all N renames, then all N moves to temporary indices, then
\* the N final moves in plan order, then the one rename-session; once it
\* has finished it has issued exactly these 3N + 1 calls.
C17_CallsInOrderedPhases ==
    Applying(1)
        => LET expected == CallsInPhaseOrder(plan[1])
           IN /\ Len(calls[1]) <= Len(expected)
              /\ \A k \in 1..Len(calls[1]) : AsIssued(calls[1][k]) = expected[k]
              /\ pc[1] \in {"clear", "returned"} => Len(calls[1]) = Len(expected)

\* a plan of two entries was applied to the end: seven calls
C17_Witness ==
    /\ pc[1] = "returned"
    /\ Len(plan[1].windows) = 2
    /\ Len(calls[1]) = 7
    /\ calls[1][7].cmd = "rename-session"

\* C18: every rename-window and move-window of the applier acts on the
\* window whose id its plan entry names and on no other: the window a call
\* renamed or relocated, when it did so, is the window of the entry the call
\* was issued for, also after an earlier call failed.
C18_CallsActOnTheirEntrysWindow ==
    \A k \in 1..Len(calls[1]) :
        LET call == calls[1][k]
        IN call.acted # 0 => call.acted = plan[1].windows[call.entry].id

\* the run has its snapshot
Forked(p) == pc[p] \notin {"start", "gather"}

\* validate_plan has returned in the run p
Validated(p) == validation_error[p] # None \/ pc[p] = "write" \/ Applying(p)

\* C19: once a run has its snapshot and enrichment text they stay as they
\* are, whatever happens to the session; the cache key is build_cache_key
\* of them and the validation result is validate_plan of the plan against
\* the snapshot.
C19_RunReadsOnlyItsSnapshot ==
    /\ [][Forked(1) => /\ context'[1] = context[1]
                       /\ opencode_context'[1] = opencode_context[1]]_vars
    /\ [](LookedUp(1)
            => cache_key[1] = build_cache_key(context[1], opencode_context[1]))
    /\ [](Validated(1)
            => validation_error[1] = validate_plan(plan[1], context[1]))

\* the session changed after the snapshot: its live windows give another
\* key and would reject the plan, and the run validated it and went on
C19_Witness ==
    /\ Applying(1)
    /\ user_changed
    /\ validation_error[1] = None
    /\ cache_key[1] # build_cache_key(gather_session_context(windows), opencode_context[1])
    /\ validate_plan(plan[1], gather_session_context(windows)) # None

\* C20: when the first run stored its validated plan under a key and the
\* second run's snapshot gives the same key, the stored plan passes
\* validate_plan against the second snapshot, and the second run does not
\* end with a validation diagnostic.
C20_SameKeySamePlanStillValid ==
    (Len(cache_writes[1]) = 1 /\ LookedUp(2) /\ cache_key[2] = cache_key[1])
        => /\ validate_plan(cache[cache_key[1]], context[2]) = None
           /\ validation_error[2] = None

\* both runs went through apply_organization_plan with the same cache key
\* and the same plan
BothAppliedTheSamePlan ==
    /\ pc[1] = "returned" /\ pc[2] = "returned"
    /\ cache_key[1] = cache_key[2]
    /\ plan[1] = plan[2]

\* C23: when two runs whose children ran at the same time have applied the
\* same plan under the same cache key, the session is what the plan says,
\* every window at its entry's index under its entry's name, and neither
\* run has issued a move-window onto an index another window occupied.
C23_ConcurrentRunsEndAsPlanned ==
    BothAppliedTheSamePlan
        => /\ SessionIsAsPlanned(1)
           /\ ~collided[1]
           /\ ~collided[2]

\* a plan a run on its own applies as planned: one entry per window of the
\* session, and no planned index among the temporary ones
LoneRunAppliesIt(pl) ==
    /\ Len(pl.windows) = Cardinality(IdsOf(pl.windows))
    /\ \A k \in 1..Len(pl.windows) : pl.windows[k].index < TempBase

\* the same, for the plans a run on its own applies as planned
ConcurrentRunsOfSoundPlanEndAsPlanned ==
    (BothAppliedTheSamePlan /\ LoneRunAppliesIt(plan[1]))
        => /\ SessionIsAsPlanned(1)
           /\ ~collided[1]
           /\ ~collided[2]

(***************************************************************************)
(* Pure functions, applied to inputs drawn from bounded sets.  The session *)
(* stands still meanwhile.                                                 *)
(***************************************************************************)
MainQuiet ==
    /\ windows = <<[index |-> 0, name |-> Name_sh]>>
    /\ next_window_id = 2
    /\ user_changed = FALSE
    /\ session_name = "0"
    /\ status = None
    /\ cache = <<>>
    /\ RunsIdle
    /\ NameIdle

\* the snapshots validate_plan is given: any set of the window ids
ValidateContexts ==
    {gather_session_context([w \in ids |-> [index |-> w - 1, name |-> Name_sh]]) :
        ids \in SUBSET WindowIds}

ValidateInputs == [plan : ProposedPlans, context : ValidateContexts]

InitValidate ==
    /\ MainQuiet
    /\ pure_pc = "input"
    /\ pure_in \in ValidateInputs
    /\ pure_out = None

call_validate_plan ==
    /\ pure_pc = "input"
    /\ pure_out' = validate_plan(pure_in.plan, pure_in.context)
    /\ pure_pc' = "output"
    /\ UNCHANGED <<mainvars, envvars, pure_in, namevars>>

NextValidate == call_validate_plan

SpecValidate == InitValidate /\ [][NextValidate]_vars

\* the snapshot ids the plan lacks, and the plan ids the snapshot lacks
MissingIds(in) == IdsOf(in.context.windows) \ IdsOf(in.plan.windows)
ExtraIds(in) == IdsOf(in.plan.windows) \ IdsOf(in.context.windows)

\* two entries of the plan share an index
SharesAnIndex(pl) ==
    \E j, k \in 1..Len(pl.windows) : j # k /\ pl.windows[j].index = pl.windows[k].index

\* C3: for a plan carrying both top-level keys, validate_plan returns None
\* exactly when the plan's window ids are the snapshot's window ids and no
\* two entries of the plan share an index.
C3_ValidIffSameIdsAndDistinctIndices ==
    (pure_pc = "output" /\ PlanKeys \subseteq pure_in.plan.keys)
        => ((pure_out = None)
              <=> (MissingIds(pure_in) = {} /\ ExtraIds(pure_in) = {}
                   /\ ~SharesAnIndex(pure_in.plan)))

\* a plan of two entries for a snapshot of two windows was accepted
C3_Witness ==
    /\ pure_pc = "output"
    /\ pure_out = None
    /\ Len(pure_in.plan.windows) = 2
    /\ Len(pure_in.context.windows) = 2

\* C22: a plan validate_plan accepts has one entry per window of the
\* snapshot: as many entries as the snapshot has windows, and no window id
\* in two entries.
C22_AcceptedPlanHasOneEntryPerWindow ==
    (pure_pc = "output" /\ pure_out = None)
        => /\ Len(pure_in.plan.windows) = Len(pure_in.context.windows)
           /\ \A j, k \in 1..Len(pure_in.plan.windows) :
                 j # k => pure_in.plan.windows[j].id # pure_in.plan.windows[k].id

\* the diagnostic lists exactly the ids under the label
Lists(diag, label, ids) ==
    \E k \in 1..Len(diag.parts) :
        /\ diag.parts[k].label = label
        /\ {diag.parts[k].ids[j] : j \in 1..Len(diag.parts[k].ids)} = ids

\* C4 as stated: the diagnostic of a rejected plan names every defect the
\* plan has: the missing ids, the extra ids, and the duplicate indices.
C4_DiagnosticNamesEveryDefect ==
    (pure_pc = "output" /\ pure_out # None)
        => /\ MissingIds(pure_in) # {} => Lists(pure_out, "missing", MissingIds(pure_in))
           /\ ExtraIds(pure_in) # {} => Lists(pure_out, "extra", ExtraIds(pure_in))
           /\ SharesAnIndex(pure_in.plan) => pure_out.text = "duplicate indices"

\* C4, amended: for a rejected plan carrying both top-level keys the
\* diagnostic lists the missing ids whenever any are missing and the extra
\* ids whenever any are extra; it names duplicate indices whenever two
\* entries share an index and the plan's ids are the snapshot's.
C4_DiagnosticNamesFirstDefect ==
    (pure_pc = "output" /\ pure_out # None /\ PlanKeys \subseteq pure_in.plan.keys)
        => /\ MissingIds(pure_in) # {} => Lists(pure_out, "missing", MissingIds(pure_in))
           /\ ExtraIds(pure_in) # {} => Lists(pure_out, "extra", ExtraIds(pure_in))
           /\ (SharesAnIndex(pure_in.plan) /\ MissingIds(pure_in) = {} /\ ExtraIds(pure_in) = {})
                 => pure_out.text = "duplicate indices"

\* a plan with a missing and an extra id was rejected, both listed
C4_Witness ==
    /\ pure_pc = "output"
    /\ pure_out # None
    /\ MissingIds(pure_in) # {} /\ ExtraIds(pure_in) # {}
    /\ Lists(pure_out, "missing", MissingIds(pure_in))
    /\ Lists(pure_out, "extra", ExtraIds(pure_in))

(***************************************************************************)
(* build_cache_key on a snapshot and on the same snapshot with the panes   *)
(* of a window, or the windows, in another order.                          *)
(***************************************************************************)
\* a pane whose child command line is unknown, and a pane with a command
\* line and a path that holds the key's separator characters
KeyPanes ==
    {[command |-> <<"c">>, cmdline |-> <<>>, full_path |-> <<"p">>],
     [command |-> <<"b">>, cmdline |-> <<"c">>,
      full_path |-> <<"p", ";", "a", "|", "c", ":", "p">>]}

KeyNames == {<<"a">>, <<"b">>}
KeyTexts == {<<>>, <<"a">>}

\* sequences over S of length from 1 to n
SeqsFrom1(S, n) == UNION {[1..k -> S] : k \in 1..n}

KeyWindows == [name : KeyNames, panes : SeqsFrom1(KeyPanes, MaxKeyPanes)]

\* a snapshot of the given windows, ids and indices in list order
KeyContext(ws) ==
    [session_id |-> "$0", session_path |-> Path_p,
     windows |-> [k \in 1..Len(ws) |->
                     [id |-> k, index |-> k - 1, name |-> ws[k].name, panes |-> ws[k].panes]]]

KeyContexts == {KeyContext(ws) : ws \in SeqsFrom1(KeyWindows, MaxKeyWindows)}

\* the permutations of 1..n
PermutationsOf(n) == {f \in [1..n -> 1..n] : \A j, k \in 1..n : j # k => f[j] # f[k]}

\* the sequence q in the order f
Permuted(q, f) == [k \in 1..Len(q) |-> q[f[k]]]

\* the snapshot with the panes of window k in the order f
WithPanesPermuted(ctx, k, f) ==
    [ctx EXCEPT !.windows[k].panes = Permuted(@, f)]

\* the snapshot with its windows in the order f
WithWindowsPermuted(ctx, f) == [ctx EXCEPT !.windows = Permuted(@, f)]

PanePermutationInputs ==
    UNION {UNION {{[kind |-> "panes", context |-> ctx, oc |-> oc,
                    other |-> WithPanesPermuted(ctx, k, f)] :
                      f \in PermutationsOf(Len(ctx.windows[k].panes))} :
                  k \in 1..Len(ctx.windows)} :
           ctx \in KeyContexts, oc \in KeyTexts}

WindowPermutationInputs ==
    UNION {{[kind |-> "windows", context |-> ctx, oc |-> oc,
             other |-> WithWindowsPermuted(ctx, f)] :
               f \in {g \in PermutationsOf(Len(ctx.windows)) : \E k \in 1..Len(ctx.windows) : g[k] # k}} :
           ctx \in KeyContexts, oc \in KeyTexts}

InitKey ==
    /\ MainQuiet
    /\ pure_pc = "input"
    /\ pure_in \in PanePermutationInputs \cup WindowPermutationInputs
    /\ pure_out = None

call_build_cache_key ==
    /\ pure_pc = "input"
    /\ pure_out' = [key |-> build_cache_key(pure_in.context, pure_in.oc),
                    other_key |-> build_cache_key(pure_in.other, pure_in.oc)]
    /\ pure_pc' = "output"
    /\ UNCHANGED <<mainvars, envvars, pure_in, namevars>>

NextKey == call_build_cache_key

SpecKey == InitKey /\ [][NextKey]_vars

\* C8: the snapshot with the panes of one window in another order has the
\* same cache key.
C8_PaneOrderLeavesKey ==
    (pure_pc = "output" /\ pure_in.kind = "panes")
        => pure_out.key = pure_out.other_key

\* two different panes of a window changed places and the key stayed
C8_Witness ==
    /\ pure_pc = "output"
    /\ pure_in.kind = "panes"
    /\ pure_in.other # pure_in.context
    /\ pure_out.key = pure_out.other_key

\* C9 as stated: the snapshot with its windows in another order has
\* another cache key.
C9_WindowOrderChangesKey ==
    (pure_pc = "output" /\ pure_in.kind = "windows")
        => pure_out.key # pure_out.other_key

\* what the key keeps of a window: its name and its pane fingerprints, sorted
WindowSignature(window) == <<window.name, SortedStrs(PaneFingerprints(window.panes))>>

\* the string holds none of the characters that separate windows and panes
SeparatorFree(str) == \A k \in 1..Len(str) : str[k] \notin {";", "|"}

\* no name, command line, command or path of the snapshot holds a separator
SnapshotSeparatorFree(ctx) ==
    \A k \in 1..Len(ctx.windows) :
        /\ SeparatorFree(ctx.windows[k].name)
        /\ \A j \in 1..Len(ctx.windows[k].panes) :
              LET pane == ctx.windows[k].panes[j]
              IN /\ SeparatorFree(pane.cmdline)
                 /\ SeparatorFree(pane.command)
                 /\ SeparatorFree(pane.full_path)

\* any two windows of the snapshot differ in name or in pane fingerprints
WindowsDiffer(ctx) ==
    \A j, k \in 1..Len(ctx.windows) :
        j # k => WindowSignature(ctx.windows[j]) # WindowSignature(ctx.windows[k])

\* C9, amended: when the windows differ pairwise in their name or their
\* sorted pane fingerprints, and no name, command line, command or path
\* holds ';' or '|', the snapshot with its windows in another order has
\* another cache key.
C9_DistinctWindowsReorderedChangeKey ==
    (/\ pure_pc = "output"
     /\ pure_in.kind = "windows"
     /\ WindowsDiffer(pure_in.context)
     /\ SnapshotSeparatorFree(pure_in.context))
        => pure_out.key # pure_out.other_key

\* two windows of the same panes under different names changed places
C9_Witness ==
    /\ pure_pc = "output"
    /\ pure_in.kind = "windows"
    /\ WindowsDiffer(pure_in.context)
    /\ SnapshotSeparatorFree(pure_in.context)
    /\ pure_in.context.windows[1].panes = pure_in.context.windows[2].panes
    /\ pure_out.key # pure_out.other_key

(***************************************************************************)
(* extract_json_from_output on the texts over a small alphabet: braces,    *)
(* the quote, the colon, a digit and a letter.  Over this alphabet JSON    *)
(* has the values                                                          *)
(*     object ::= {} | { string : value }                                  *)
(*     string ::= " characters other than the quote "                      *)
(*     number ::= 1 | 11 | ...                                             *)
(* A parse gives [ok, value, next]: whether a value starts at the          *)
(* position, the value, and the position after it.                         *)
(***************************************************************************)
TextAlphabet == {"{", "}", "\"", ":", "1", "a"}

Failed == [ok |-> FALSE]

\* the first position from i on that holds the character, 0 when none does
RECURSIVE Find(_, _, _)
Find(text, ch, i) ==
    IF i > Len(text) THEN 0
    ELSE IF text[i] = ch THEN i
    ELSE Find(text, ch, i + 1)

\* the string literal opening at position i
ParseString(text, i) ==
    IF i > Len(text) \/ text[i] # "\"" THEN Failed
    ELSE LET close == Find(text, "\"", i + 1)
         IN IF close = 0 THEN Failed
            ELSE [ok |-> TRUE, value |-> [string |-> SubSeq(text, i + 1, close - 1)],
                  next |-> close + 1]

\* the number starting at position i: its digits, as far as they go
RECURSIVE ParseNumber(_, _, _)
ParseNumber(text, i, sofar) ==
    IF i <= Len(text) /\ text[i] = "1"
    THEN ParseNumber(text, i + 1, 10 * sofar + 1)
    ELSE [ok |-> TRUE, value |-> [number |-> sofar], next |-> i]

\* the JSON value starting at position i
RECURSIVE ParseValue(_, _)
ParseValue(text, i) ==
    IF i > Len(text) THEN Failed
    ELSE IF text[i] = "\"" THEN ParseString(text, i)
    ELSE IF text[i] = "1" THEN ParseNumber(text, i, 0)
    ELSE IF text[i] # "{" THEN Failed
    ELSE IF i + 1 <= Len(text) /\ text[i + 1] = "}"
    THEN [ok |-> TRUE, value |-> [object |-> {}], next |-> i + 2]
    ELSE LET key == ParseString(text, i + 1)
         IN IF ~key.ok THEN Failed
            ELSE IF key.next > Len(text) \/ text[key.next] # ":" THEN Failed
            ELSE LET member == ParseValue(text, key.next + 1)
                 IN IF ~member.ok THEN Failed
                    ELSE IF member.next > Len(text) \/ text[member.next] # "}" THEN Failed
                    ELSE [ok |-> TRUE,
                          value |-> [object |-> {<<key.value.string, member.value>>}],
                          next |-> member.next + 1]

\* json.loads: the value the whole text is, Failed for JSONDecodeError
JsonLoads(text) ==
    LET parsed == ParseValue(text, 1)
    IN IF parsed.ok /\ parsed.next = Len(text) + 1
       THEN [ok |-> TRUE, value |-> parsed.value]
       ELSE Failed

\* lines 177-188: the scan from start on, depth braces open before position i
RECURSIVE ScanBraces(_, _, _, _)
ScanBraces(text, start, i, depth) ==
    IF i > Len(text) THEN None
    ELSE LET opened == IF text[i] = "{" THEN depth + 1 ELSE depth
         IN IF text[i] = "}"
            THEN IF opened - 1 = 0
                 THEN LET loaded == JsonLoads(SubSeq(text, start, i))
                      IN IF loaded.ok THEN loaded.value ELSE None
                 ELSE ScanBraces(text, start, i + 1, opened - 1)
            ELSE ScanBraces(text, start, i + 1, opened)

\* the parsed object, or None
extract_json_from_output(text) ==
    LET start == Find(text, "{", 1)
    IN IF start = 0 THEN None ELSE ScanBraces(text, start, start, 0)

InitParse ==
    /\ MainQuiet
    /\ pure_pc = "input"
    /\ pure_in \in SeqsUpTo(TextAlphabet, MaxTextLen)
    /\ pure_out = None

call_extract_json_from_output ==
    /\ pure_pc = "input"
    /\ pure_out' = extract_json_from_output(pure_in)
    /\ pure_pc' = "output"
    /\ UNCHANGED <<mainvars, envvars, pure_in, namevars>>

NextParse == call_extract_json_from_output

SpecParse == InitParse /\ [][NextParse]_vars

\* opening braces less closing braces of the text
RECURSIVE NetDepth(_)
NetDepth(text) ==
    IF text = <<>> THEN 0
    ELSE (IF Head(text) = "{" THEN 1 ELSE IF Head(text) = "}" THEN 0 - 1 ELSE 0)
         + NetDepth(Tail(text))

\* text[i..j] starts at a brace, balances, and parses as an object
WellFormedObjectAt(text, i, j) ==
    /\ text[i] = "{"
    /\ NetDepth(SubSeq(text, i, j)) = 0
    /\ JsonLoads(SubSeq(text, i, j)).ok

\* the places of the well-formed objects of the text
WellFormedObjects(text) ==
    {ij \in (1..Len(text)) \X (1..Len(text)) :
        ij[1] <= ij[2] /\ WellFormedObjectAt(text, ij[1], ij[2])}

\* the first of them: the one that starts first
FirstWellFormedObject(text) ==
    CHOOSE ij \in WellFormedObjects(text) :
        \A other \in WellFormedObjects(text) : ij[1] <= other[1]

\* C10: extract_json_from_output returns the first substring that starts at
\* a brace, balances and parses as an object, whatever surrounds it, and
\* returns None only when the text holds no such substring.
C10_ReturnsFirstWellFormedObject ==
    pure_pc = "output"
        => IF WellFormedObjects(pure_in) = {}
           THEN pure_out = None
           ELSE LET first == FirstWellFormedObject(pure_in)
                IN pure_out = JsonLoads(SubSeq(pure_in, first[1], first[2])).value

(***************************************************************************)
(* The enrichment records of `otop sessions` and their matching to         *)
(* windows: query_opencode_for_window of name.py and                       *)
(* build_opencode_context of organize.py.  A record is the parsed JSON     *)
(* object: its pane target "session:window.pane" as characters, and its    *)
(* session data, an object that may lack the title.                        *)
(***************************************************************************)
\* records of an `otop sessions` output
MaxRecords == 2

\* str.split(sep, 1) around the first separator at position at
Before(str, at) == SubSeq(str, 1, at - 1)
After(str, at) == SubSeq(str, at + 1, Len(str))

Digits == {"0", "1"}
DigitValue(c) == IF c = "1" THEN 1 ELSE 0

\* the value of a string of digits, most significant first
RECURSIVE DigitsValue(_, _)
DigitsValue(str, sofar) ==
    IF str = <<>> THEN sofar
    ELSE DigitsValue(Tail(str), 10 * sofar + DigitValue(Head(str)))

\* Python's int(str): an optional sign and digits, Failed for ValueError
ParseInt(str) ==
    LET signed == str # <<>> /\ Head(str) \in {"+", "-"}
        digits == IF signed THEN Tail(str) ELSE str
    IN IF digits = <<>> \/ \E k \in 1..Len(digits) : digits[k] \notin Digits
       THEN Failed
       ELSE [ok |-> TRUE,
             value |-> IF signed /\ Head(str) = "-"
                       THEN 0 - DigitsValue(digits, 0)
                       ELSE DigitsValue(digits, 0)]

\* rest.split(".")[0] if "." in rest else rest
IndexString(rest) ==
    LET dot == Find(rest, ".", 1)
    IN IF dot = 0 THEN rest ELSE Before(rest, dot)

\* session_data.get("title", default)
TitleOf(session_data, default) ==
    IF "title" \in DOMAIN session_data THEN session_data.title ELSE default

\* entry.get("tmux_pane", "") and entry.get("session", {})
PaneTargetOf(entry) == IF "tmux_pane" \in DOMAIN entry THEN entry.tmux_pane ELSE <<>>
SessionDataOf(entry) == IF "session" \in DOMAIN entry THEN entry.session ELSE <<>>

\* query_opencode_for_window when a window index that does not parse ends
\* the search
RECURSIVE query_opencode_for_window_stops_at_ValueError(_, _, _)
query_opencode_for_window_stops_at_ValueError(sessions, window_index, of_session) ==
    IF sessions = <<>> THEN ""
    ELSE LET entry == Head(sessions)
             pane_target == PaneTargetOf(entry)
             colon == Find(pane_target, ":", 1)
             next == query_opencode_for_window_stops_at_ValueError(
                         Tail(sessions), window_index, of_session)
         IN IF pane_target = <<>> \/ colon = 0 THEN next
            ELSE IF Before(pane_target, colon) # of_session THEN next
            ELSE LET parsed == ParseInt(IndexString(After(pane_target, colon)))
                 IN IF ~parsed.ok THEN ""
                    ELSE IF parsed.value = window_index
                    THEN TitleOf(SessionDataOf(entry), "")
                    ELSE next

\* name.py lines 34-51 on the parsed output of `otop sessions`: the title of
\* the first entry of the session and window, "" when there is none
RECURSIVE query_opencode_for_window(_, _, _)
query_opencode_for_window(sessions, window_index, of_session) ==
    IF sessions = <<>> THEN ""
    ELSE LET entry == Head(sessions)
             pane_target == PaneTargetOf(entry)
             colon == Find(pane_target, ":", 1)
             next == query_opencode_for_window(Tail(sessions), window_index, of_session)
         IN IF pane_target = <<>> \/ colon = 0 THEN next
            ELSE IF Before(pane_target, colon) # of_session THEN next
            ELSE LET parsed == ParseInt(IndexString(After(pane_target, colon)))
                 IN IF ~parsed.ok THEN next
                    ELSE IF parsed.value = window_index
                    THEN TitleOf(SessionDataOf(entry), "")
                    ELSE next

\* organize.py lines 126-147: the dict window_sessions, window index ->
\* session data, a later record replacing an earlier one of the same index
RECURSIVE WindowSessions(_, _)
WindowSessions(opencode_sessions, of_session) ==
    IF opencode_sessions = <<>> THEN <<>>
    ELSE LET n == Len(opencode_sessions)
             before == WindowSessions(SubSeq(opencode_sessions, 1, n - 1), of_session)
             oc_session == opencode_sessions[n]
             pane_target == PaneTargetOf(oc_session)
             colon == Find(pane_target, ":", 1)
         IN IF pane_target = <<>> \/ colon = 0 THEN before
            ELSE IF Before(pane_target, colon) # of_session THEN before
            ELSE LET parsed == ParseInt(IndexString(After(pane_target, colon)))
                     session_data == SessionDataOf(oc_session)
                 IN IF ~parsed.ok \/ session_data = <<>> THEN before
                    ELSE [idx \in DOMAIN before \cup {parsed.value} |->
                             IF idx = parsed.value THEN session_data ELSE before[idx]]

\* organize.py lines 109-166: the enrichment text, one line per window index
\* of window_sessions in index order, the empty text when there is none;
\* of_session is what display-message prints for "#S" (line 125)
build_opencode_context(opencode_sessions, ctx, of_session) ==
    LET window_sessions == WindowSessions(opencode_sessions, of_session)
        order == SortedIds(DOMAIN window_sessions)
    IN [k \in 1..Len(order) |->
           [window |-> order[k], title |-> TitleOf(window_sessions[order[k]], "untitled")]]

\* pane targets: of the session w and of another, with and without a pane
\* index, without a colon, with a window index that is no integer, empty
PaneTargets ==
    {<<"w", ":", "1", ".", "0">>, <<"w", ":", "1">>, <<"w", ":", "0", ".", "1">>,
     <<"v", ":", "1", ".", "0">>, <<"w", "1", ".", "0">>, <<"w", ":", "x", ".", "0">>,
     <<>>}

\* session data: none, with a title, without one
SessionDatas == {<<>>, [title |-> "t1"], [title |-> "t2"], [status |-> "idle"]}

OtopRecords ==
    [tmux_pane : PaneTargets, session : SessionDatas] \cup {[session |-> [title |-> "t1"]]}

OtopOutputs == SeqsUpTo(OtopRecords, MaxRecords)

SessionNames == {<<"w">>, <<"v">>}

LookupInputs ==
    [kind : {"lookup"}, sessions : OtopOutputs, window_index : 0..(NumWindows - 1),
     of_session : SessionNames]

ContextInputs ==
    [kind : {"context"}, sessions : OtopOutputs, context : ValidateContexts,
     of_session : SessionNames]

InitEnrich ==
    /\ MainQuiet
    /\ pure_pc = "input"
    /\ pure_in \in LookupInputs \cup ContextInputs
    /\ pure_out = None

call_query_opencode_for_window ==
    /\ pure_pc = "input"
    /\ pure_in.kind = "lookup"
    /\ pure_out' = query_opencode_for_window(pure_in.sessions, pure_in.window_index,
                                             pure_in.of_session)
    /\ pure_pc' = "output"
    /\ UNCHANGED <<mainvars, envvars, pure_in, namevars>>

call_build_opencode_context ==
    /\ pure_pc = "input"
    /\ pure_in.kind = "context"
    /\ pure_out' = build_opencode_context(pure_in.sessions, pure_in.context,
                                          pure_in.of_session)
    /\ pure_pc' = "output"
    /\ UNCHANGED <<mainvars, envvars, pure_in, namevars>>

NextEnrich ==
    \/ call_query_opencode_for_window
    \/ call_build_opencode_context

SpecEnrich == InitEnrich /\ [][NextEnrich]_vars

\* the part of a string before its first '.', the string when it has none
PrefixBeforeDot(str) ==
    LET dots == {d \in 1..Len(str) : str[d] = "."}
    IN IF dots = {} THEN str
       ELSE SubSeq(str, 1, (CHOOSE d \in dots : \A e \in dots : d <= e) - 1)

\* the record's pane target names the session s and the window index k
MatchesWindow(entry, s, k) ==
    LET target == PaneTargetOf(entry)
    IN \E c \in 1..Len(target) :
          /\ target[c] = ":"
          /\ \A b \in 1..(c - 1) : target[b] # ":"
          /\ SubSeq(target, 1, c - 1) = s
          /\ LET index == ParseInt(PrefixBeforeDot(SubSeq(target, c + 1, Len(target))))
             IN index.ok /\ index.value = k

C13_NoMatchingWindowNoEnrichment ==
    (/\ pure_pc = "output"
     /\ pure_in.kind = "context"
     /\ \A i \in 1..Len(pure_in.sessions), k \in 1..Len(pure_in.context.windows) :
           ~MatchesWindow(pure_in.sessions[i], pure_in.of_session,
                          pure_in.context.windows[k].index))
        => pure_out = <<>>

(***************************************************************************)
(* tname, main() of name.py: the name of one window.  The user selects     *)
(* and closes windows meanwhile.                                           *)
(***************************************************************************)
\* what the proposal service prints: nothing, blanks, a name, a name with
\* a blank or a newline in it
NameOutputs == {<<>>, <<" ">>, <<"c">>, <<"s", " ", "h">>, <<"c", "\n">>}

\* line 162: stdout.strip().replace(" ", "").replace("\n", "")
Slug(stdout) == SelectSeq(stdout, LAMBDA ch : ch \notin {" ", "\n"})

\* what tname leaves alone: the organize runs, the cache, the session's
\* name and status option
NameFrame ==
    UNCHANGED <<session_name, status, cache, pc, context, opencode_context, cache_key,
                plan, is_cached, loop_i, calls, model_calls, ask_result, cache_writes,
                collided, validation_error, envvars, purevars>>

\* lines 116-145: the active window's id, its pane context, the fork
tname_capture ==
    /\ name_pc = "start"
    /\ name_window_id' = active_window
    /\ name_pc' = "ask"
    /\ UNCHANGED <<windows, active_window, name_result, name_calls>>
    /\ NameFrame

\* lines 148-171: the proposal call times out or prints stdout; without a
\* slug tname reports the failure and exits 1
tname_ask ==
    /\ name_pc = "ask"
    /\ \/ /\ name_result' = [kind |-> "TimeoutExpired"]
          /\ name_pc' = "exit_1"
       \/ \E stdout \in NameOutputs :
             /\ name_result' = [kind |-> "stdout", stdout |-> stdout]
             /\ name_pc' = IF Slug(stdout) = <<>> THEN "exit_1" ELSE "rename"
    /\ UNCHANGED <<windows, active_window, name_window_id, name_calls>>
    /\ NameFrame

\* tname_rename when rename-window names no target: tmux takes the active
\* window
tname_rename_active_window ==
    /\ name_pc = "rename"
    /\ windows' = TmuxRenameWindow(windows, active_window, Slug(name_result.stdout))
    /\ name_calls' = Append(name_calls, [cmd |-> "rename-window", src |-> active_window,
                                         name |-> Slug(name_result.stdout)])
    /\ name_pc' = "returned"
    /\ UNCHANGED <<active_window, name_window_id, name_result>>
    /\ NameFrame

\* lines 173-177: rename-window -t <window_id> <slug>
tname_rename ==
    /\ name_pc = "rename"
    /\ windows' = TmuxRenameWindow(windows, name_window_id, Slug(name_result.stdout))
    /\ name_calls' = Append(name_calls, [cmd |-> "rename-window", src |-> name_window_id,
                                         name |-> Slug(name_result.stdout)])
    /\ name_pc' = "returned"
    /\ UNCHANGED <<active_window, name_window_id, name_result>>
    /\ NameFrame

\* tmux select-window, by the user
tname_select_window ==
    /\ name_pc \in {"start", "ask", "rename"}
    /\ \E w \in DOMAIN windows \ {active_window} : active_window' = w
    /\ UNCHANGED <<windows, name_pc, name_window_id, name_result, name_calls>>
    /\ NameFrame

\* tmux kill-window on one of several windows, by the user; when the active
\* window goes another becomes active
tname_kill_window ==
    /\ name_pc \in {"ask", "rename"}
    /\ Cardinality(DOMAIN windows) > 1
    /\ \E w \in DOMAIN windows :
          /\ windows' = [v \in DOMAIN windows \ {w} |-> windows[v]]
          /\ active_window' = IF w = active_window
                               THEN CHOOSE v \in DOMAIN windows \ {w} : TRUE
                               ELSE active_window
    /\ UNCHANGED <<name_pc, name_window_id, name_result, name_calls>>
    /\ NameFrame

NextName ==
    \/ tname_capture
    \/ tname_ask
    \/ tname_rename
    \/ tname_select_window
    \/ tname_kill_window

SpecName == Init /\ [][NextName]_vars

\* C21: tname leaves the plan cache as it is, issues no move-window and no
\* rename-session, issues at most one rename-window, whose target is the
\* window id read before the fork whichever window is active by then, and
\* issues no rename-window when its proposal call timed out or printed no
\* name.
C21_OneRenameOfTheCapturedWindow ==
    /\ cache = <<>>
    /\ Len(name_calls) <= 1
    /\ \A k \in 1..Len(name_calls) :
          /\ name_calls[k].cmd = "rename-window"
          /\ name_calls[k].src = name_window_id
    /\ name_pc \in {"start", "ask"} => name_calls = <<>>
    /\ (name_result.kind = "TimeoutExpired"
          \/ (name_result.kind = "stdout" /\ Slug(name_result.stdout) = <<>>))
            => name_calls = <<>> /\ name_pc = "exit_1"

\* the user selected another window during the proposal call, and the
\* window tname was invoked in got the name
C21_Witness ==
    /\ name_pc = "returned"
    /\ Len(name_calls) = 1
    /\ active_window # name_window_id
    /\ name_window_id \in DOMAIN windows
    /\ windows[name_window_id].name = Slug(name_result.stdout)
    /\ windows[active_window].name = Name_sh
=============================================================================
